---- MODULE Spec2Model ----
(***************************************************************************)
(* Model of the Pirata NFT contract (src/pirata_nft_contract.py): an FA2   *)
(* NFT ledger with operators, an administrator, minting and a per-token    *)
(* usage counter.  Every entry point is one action; a failing sp.verify    *)
(* aborts the call and the storage is the one before the call.            *)
(*                                                                         *)
(* The contract is explored from its origination under three sets of       *)
(* calls: Spec (every entry point, transfers of at most one leg, tokens    *)
(* without a usage counter), SpecBatch (mint, update_operators and         *)
(* transfers of up to two legs) and SpecUsage (tokens with and without a   *)
(* usage counter, update_usage interleaved with the other entry points).   *)
(* The operations a call emits (balance_of's callback) are part of the     *)
(* state.                                                                  *)
(***************************************************************************)
EXTENDS Integers, Sequences, FiniteSets, TLC

VARIABLES
    ledger,          \* big_map token_id -> owner
    token_metadata,  \* big_map token_id -> [token_id, token_info]
    last_token_id,   \* nat: the next id mint assigns
    operators,       \* big_map used as a set of operator permissions
    administrator,   \* address
    metadata,        \* big_map string -> bytes (contract metadata)
    call,            \* the last entry point call: its name, sender and parameters
    result,          \* "ok" or the error the last call failed with
    pre,             \* the storage before the last call
    usage_calls,     \* history: successful update_usage calls per token
    operations       \* the operations the last call emitted (sp.transfer)

storage_vars == <<ledger, token_metadata, last_token_id, operators, administrator, metadata>>
vars == <<ledger, token_metadata, last_token_id, operators, administrator, metadata,
          call, result, pre, usage_calls, operations>>

(* ------------------------------ bounds -------------------------------- *)

\* mint is not taken once this many tokens exist
MaxTokens == 2
\* update_usage is not taken on a token whose counter reached this value
MaxUsage == 2
\* an update_operators call is not taken if it would leave more grants than this
MaxOperators == 2

(* ------------------------------ inputs -------------------------------- *)

Addresses == {"tanoy", "abby", "carol"}
\* token ids a caller may name: MaxTokens is never defined
TokenIds == 0..MaxTokens
Amounts == {0, 1, 2}

(* ------------------------------ bytes --------------------------------- *)

None == [some |-> FALSE, value |-> 0]
Some(v) == [some |-> TRUE, value |-> v]

RECURSIVE zarith_tail(_)
zarith_tail(m) ==
    IF m = 0 THEN <<>>
    ELSE <<(m % 128) + (IF m >= 128 THEN 128 ELSE 0)>> \o zarith_tail(m \div 128)

\* sp.pack of a non-negative integer: 0x05, the Int tag 0x00, then the
\* zarith encoding (6 bits in the first byte, bit 6 the sign, bit 7 "more")
pack(n) ==
    <<5, 0, (n % 64) + (IF n >= 64 THEN 128 ELSE 0)>> \o zarith_tail(n \div 64)

RECURSIVE zarith_value(_, _)
\* the value of the 7-bit groups b[i..]; -1 if the continuation bits are wrong
zarith_value(b, i) ==
    IF i > Len(b) THEN -1
    ELSE IF b[i] < 128
         THEN (IF i = Len(b) /\ b[i] # 0 THEN b[i] ELSE -1)
         ELSE LET rest == zarith_value(b, i + 1)
              IN  IF rest < 0 THEN -1 ELSE (b[i] - 128) + 128 * rest

\* sp.unpack(bytes, sp.TIntOrNat): None unless the bytes are a packed integer
unpack(b) ==
    IF Len(b) < 3 \/ b[1] # 5 \/ b[2] # 0 THEN None
    ELSE IF b[3] < 128
         THEN (IF Len(b) # 3 THEN None
               ELSE IF b[3] >= 64 THEN Some(0 - (b[3] - 64)) ELSE Some(b[3]))
         ELSE LET rest == zarith_value(b, 4)
                  low  == (b[3] - 128) % 64
                  neg  == (b[3] - 128) >= 64
              IN  IF rest < 0 THEN None
                  ELSE IF neg THEN Some(0 - (low + 64 * rest))
                  ELSE Some(low + 64 * rest)

\* sp.utils.bytes_of_string of the token's uri (the bytes of "ipfs")
uri_bytes == <<105, 112, 102, 115>>

\* the token_info of the test's mint: an uri and a usage counter packed as 0
InfoUsage == ("" :> uri_bytes) @@ ("usage" :> pack(0))
\* a token_info without the "usage" key
InfoNoUsage == ("" :> uri_bytes)

metadata_of_url(u) == ("" :> u)
Metadatas == {metadata_of_url("ipfs://QmRbm"), metadata_of_url("ipfs://other")}

(* ------------------------------ maps ---------------------------------- *)

\* m[k] = v of a (big_)map
Put(m, k, v) == [x \in DOMAIN m \cup {k} |-> IF x = k THEN v ELSE m[x]]

Storage ==
    [ledger |-> ledger, token_metadata |-> token_metadata,
     last_token_id |-> last_token_id, operators |-> operators,
     administrator |-> administrator, metadata |-> metadata]

(* ------------------------------ policy -------------------------------- *)

is_defined(token_id) == token_id \in DOMAIN token_metadata

\* mutant: the recipient, not the owner, is the one allowed to move the token
check_tx_transfer_permissions_recipient(sender, from_, to_, token_id) ==
    \/ sender = to_
    \/ [owner |-> from_, operator |-> sender, token_id |-> token_id] \in operators

\* mutant: a grant of anybody to the sender for the token authorizes the transfer
check_tx_transfer_permissions_any_owner(sender, from_, to_, token_id) ==
    \/ sender = from_
    \/ \E p \in operators : p.operator = sender /\ p.token_id = token_id

\* mutant: a grant of the owner to the sender for any token authorizes the transfer
check_tx_transfer_permissions_any_token(sender, from_, to_, token_id) ==
    \/ sender = from_
    \/ \E p \in operators : p.owner = from_ /\ p.operator = sender

\* OwnerOrOperatorTransfer.check_tx_transfer_permissions: TRUE iff the verify passes
check_tx_transfer_permissions(sender, from_, to_, token_id) ==
    \/ sender = from_
    \/ [owner |-> from_, operator |-> sender, token_id |-> token_id] \in operators

\* mutant: the caller must be the operator the permission names, not its owner
check_operator_update_permissions_operator(sender, operator_permission) ==
    operator_permission.operator = sender

\* OwnerOrOperatorTransfer.check_operator_update_permissions: TRUE iff the verify passes
check_operator_update_permissions(sender, operator_permission) ==
    operator_permission.owner = sender

is_operator(operator_permission) == operator_permission \in operators

is_administrator(sender) == sender = administrator

(* ------------------------------ Fa2Nft -------------------------------- *)

\* the result of a step of a call: the error (or "ok") and the value it computed
Ok(m) == [err |-> "ok", val |-> m]
Fail(e, m) == [err |-> e, val |-> m]

\* a lookup of a key the map does not hold fails the call with no FA2 error
MissingKey == "MISSING_KEY"

\* Fa2Nft.initial_mint with the constructor's defaults (no token, no ledger)
initial_mint == [ledger |-> <<>>, token_metadata |-> <<>>]

\* Fa2Nft.balance_: fails on an undefined token, else the balance 0 or 1
balance_(owner, token_id) ==
    IF ~is_defined(token_id) THEN Fail("FA2_TOKEN_UNDEFINED", 0)
    ELSE IF token_id \notin DOMAIN ledger THEN Fail(MissingKey, 0)
    ELSE IF ledger[token_id] = owner THEN Ok(1) ELSE Ok(0)

supply_(token_id) ==
    IF ~is_defined(token_id) THEN Fail("FA2_TOKEN_UNDEFINED", 0) ELSE Ok(1)

\* mutant: the amount is verified, the owner is not
transfer_tx_any_owner(led, from_, tx) ==
    IF tx.token_id \notin DOMAIN led THEN Fail(MissingKey, led)
    ELSE IF ~(tx.amount = 1) THEN Fail("FA2_INSUFFICIENT_BALANCE", led)
    ELSE Ok(Put(led, tx.token_id, tx.to_))

\* Fa2Nft.transfer_tx_ on the ledger led as the earlier legs left it
transfer_tx_(led, from_, tx) ==
    IF tx.token_id \notin DOMAIN led THEN Fail(MissingKey, led)
    ELSE IF ~(tx.amount = 1 /\ led[tx.token_id] = from_)
         THEN Fail("FA2_INSUFFICIENT_BALANCE", led)
    ELSE Ok(Put(led, tx.token_id, tx.to_))

(* ------------------------------ Common -------------------------------- *)

\* mutant: the permission is verified before the token's existence
transfer_leg_permission_first(led, sender, from_, tx) ==
    IF ~check_tx_transfer_permissions(sender, from_, tx.to_, tx.token_id)
    THEN Fail("FA2_NOT_OPERATOR", led)
    ELSE IF ~is_defined(tx.token_id) THEN Fail("FA2_TOKEN_UNDEFINED", led)
    ELSE IF tx.amount > 0 THEN transfer_tx_(led, from_, tx)
    ELSE Ok(led)

\* mutant: transfer_tx_ is called whatever the amount
transfer_leg_no_amount_guard(led, sender, from_, tx) ==
    IF ~is_defined(tx.token_id) THEN Fail("FA2_TOKEN_UNDEFINED", led)
    ELSE IF ~check_tx_transfer_permissions(sender, from_, tx.to_, tx.token_id)
         THEN Fail("FA2_NOT_OPERATOR", led)
    ELSE transfer_tx_(led, from_, tx)

\* the body of Common.transfer's inner loop for one tx
transfer_leg(led, sender, from_, tx) ==
    IF ~is_defined(tx.token_id) THEN Fail("FA2_TOKEN_UNDEFINED", led)
    ELSE IF ~check_tx_transfer_permissions(sender, from_, tx.to_, tx.token_id)
         THEN Fail("FA2_NOT_OPERATOR", led)
    ELSE IF tx.amount > 0 THEN transfer_tx_(led, from_, tx)
    ELSE Ok(led)

RECURSIVE transfer_txs(_, _, _, _, _)
\* sp.for_("tx", transfer.txs) from index i on
transfer_txs(st, sender, from_, txs, i) ==
    IF st.err # "ok" \/ i > Len(txs) THEN st
    ELSE transfer_txs(transfer_leg(st.val, sender, from_, txs[i]), sender, from_, txs, i + 1)

RECURSIVE transfer_batch_reversed(_, _, _, _)
\* mutant: the transfers of the batch are applied from the last to the first
transfer_batch_reversed(st, sender, batch, i) ==
    IF st.err # "ok" \/ i > Len(batch) THEN st
    ELSE transfer_batch_reversed(
             transfer_txs(st, sender, batch[Len(batch) + 1 - i].from_,
                          batch[Len(batch) + 1 - i].txs, 1),
             sender, batch, i + 1)

RECURSIVE transfer_batch(_, _, _, _)
\* sp.for_("transfer", batch) from index i on
transfer_batch(st, sender, batch, i) ==
    IF st.err # "ok" \/ i > Len(batch) THEN st
    ELSE transfer_batch(transfer_txs(st, sender, batch[i].from_, batch[i].txs, 1),
                        sender, batch, i + 1)

\* mutant: removing a permission that is not granted fails, as del of a dict would
update_operators_action_strict_del(ops, sender, action) ==
    IF ~check_operator_update_permissions(sender, action.permission)
    THEN Fail("FA2_NOT_OWNER", ops)
    ELSE IF action.kind = "add_operator" THEN Ok(ops \cup {action.permission})
    ELSE IF action.permission \notin ops THEN Fail(MissingKey, ops)
    ELSE Ok(ops \ {action.permission})

\* one action of Common.update_operators on the operator set ops
update_operators_action(ops, sender, action) ==
    IF ~check_operator_update_permissions(sender, action.permission)
    THEN Fail("FA2_NOT_OWNER", ops)
    ELSE IF action.kind = "add_operator" THEN Ok(ops \cup {action.permission})
    ELSE Ok(ops \ {action.permission})

RECURSIVE update_operators_batch(_, _, _, _)
\* sp.for_("action", batch) from index i on
update_operators_batch(st, sender, batch, i) ==
    IF st.err # "ok" \/ i > Len(batch) THEN st
    ELSE update_operators_batch(update_operators_action(st.val, sender, batch[i]),
                                sender, batch, i + 1)

\* mutant: the requests on undefined tokens are left out of the answer
balance_of_batch_skip_undefined(requests) ==
    LET defined == SelectSeq(requests, LAMBDA q : is_defined(q.token_id))
    IN  Ok([i \in 1..Len(defined) |->
               [request |-> defined[i],
                balance |-> balance_(defined[i].owner, defined[i].token_id).val]])

RECURSIVE balance_of_batch(_)
\* Common.balance_of_batch: requests.map(f_process_request), in the order of the
\* list; the first balance_ that fails fails the whole map
balance_of_batch(requests) ==
    IF requests = <<>> THEN Ok(<<>>)
    ELSE LET b == balance_(Head(requests).owner, Head(requests).token_id)
         IN  IF b.err # "ok" THEN Fail(b.err, <<>>)
             ELSE LET rest == balance_of_batch(Tail(requests))
                  IN  IF rest.err # "ok" THEN Fail(rest.err, <<>>)
                      ELSE Ok(<<[request |-> Head(requests), balance |-> b.val]>>
                              \o rest.val)

\* offchain views
all_tokens == [i \in 1..last_token_id |-> i - 1]
get_owner(token_id) == ledger[token_id]
get_usage(token_id) == unpack(token_metadata[token_id].token_info["usage"]).value

\* mutant: the counter is written back without the increment
update_usage_result_no_increment(token_id) ==
    IF token_id \notin DOMAIN token_metadata THEN Fail(MissingKey, token_metadata)
    ELSE LET token_info == token_metadata[token_id].token_info
         IN  IF "usage" \notin DOMAIN token_info THEN Fail(MissingKey, token_metadata)
             ELSE LET usage == unpack(token_info["usage"])
                  IN  IF ~usage.some THEN Fail("OPEN_SOME", token_metadata)
                      ELSE Ok(Put(token_metadata, token_id,
                                  [token_id |-> token_metadata[token_id].token_id,
                                   token_info |-> Put(token_info, "usage",
                                                      pack(usage.value))]))

\* Nft.update_usage's new token_metadata, or the failure of its lookups
update_usage_result(token_id) ==
    IF token_id \notin DOMAIN token_metadata THEN Fail(MissingKey, token_metadata)
    ELSE LET token_info == token_metadata[token_id].token_info
         IN  IF "usage" \notin DOMAIN token_info THEN Fail(MissingKey, token_metadata)
             ELSE LET usage == unpack(token_info["usage"])
                  IN  IF ~usage.some THEN Fail("OPEN_SOME", token_metadata)
                      ELSE Ok(Put(token_metadata, token_id,
                                  [token_id |-> token_metadata[token_id].token_id,
                                   token_info |-> Put(token_info, "usage",
                                                      pack(usage.value + 1))]))

(* ---------------------------- entry points ---------------------------- *)

\* no call is being applied: the host applies one operation at a time
Idle == [op |-> "none"]

\* the host applies the call c of an idle contract: its result, the storage
\* before it and the operations it emitted
Emitted(c, r, ops) ==
    /\ call = Idle
    /\ call' = c
    /\ result' = r
    /\ pre' = Storage
    /\ operations' = ops

\* a call of an entry point that emits no operation
Called(c, r) == Emitted(c, r, <<>>)

\* mutant: the ledger entry is written under the id after the increment
mint_ledger_after_increment(sender, owner, token_info) ==
    /\ last_token_id < MaxTokens
    /\ IF ~is_administrator(sender)
       THEN /\ Called([op |-> "mint", sender |-> sender, owner |-> owner,
                       token_info |-> token_info], "FA2_NOT_ADMIN")
            /\ UNCHANGED <<storage_vars, usage_calls>>
       ELSE /\ Called([op |-> "mint", sender |-> sender, owner |-> owner,
                       token_info |-> token_info], "ok")
            /\ ledger' = Put(ledger, last_token_id + 1, owner)
            /\ token_metadata' = Put(token_metadata, last_token_id,
                                     [token_id |-> last_token_id, token_info |-> token_info])
            /\ last_token_id' = last_token_id + 1
            /\ usage_calls' = Put(usage_calls, last_token_id, 0)
            /\ UNCHANGED <<operators, administrator, metadata>>

\* mutant: the id is taken after the increment
mint_id_after_increment(sender, owner, token_info) ==
    /\ last_token_id < MaxTokens
    /\ IF ~is_administrator(sender)
       THEN /\ Called([op |-> "mint", sender |-> sender, owner |-> owner,
                       token_info |-> token_info], "FA2_NOT_ADMIN")
            /\ UNCHANGED <<storage_vars, usage_calls>>
       ELSE /\ Called([op |-> "mint", sender |-> sender, owner |-> owner,
                       token_info |-> token_info], "ok")
            /\ ledger' = Put(ledger, last_token_id + 1, owner)
            /\ token_metadata' = Put(token_metadata, last_token_id + 1,
                                     [token_id |-> last_token_id + 1, token_info |-> token_info])
            /\ last_token_id' = last_token_id + 1
            /\ usage_calls' = Put(usage_calls, last_token_id + 1, 0)
            /\ UNCHANGED <<operators, administrator, metadata>>

\* mutant: the ledger entry is written, the registry entry is not
mint_ledger_only(sender, owner, token_info) ==
    /\ last_token_id < MaxTokens
    /\ IF ~is_administrator(sender)
       THEN /\ Called([op |-> "mint", sender |-> sender, owner |-> owner,
                       token_info |-> token_info], "FA2_NOT_ADMIN")
            /\ UNCHANGED <<storage_vars, usage_calls>>
       ELSE /\ Called([op |-> "mint", sender |-> sender, owner |-> owner,
                       token_info |-> token_info], "ok")
            /\ ledger' = Put(ledger, last_token_id, owner)
            /\ last_token_id' = last_token_id + 1
            /\ usage_calls' = Put(usage_calls, last_token_id, 0)
            /\ UNCHANGED <<token_metadata, operators, administrator, metadata>>

\* mutant: last_token_id is not incremented
mint_without_increment(sender, owner, token_info) ==
    /\ last_token_id < MaxTokens
    /\ IF ~is_administrator(sender)
       THEN /\ Called([op |-> "mint", sender |-> sender, owner |-> owner,
                       token_info |-> token_info], "FA2_NOT_ADMIN")
            /\ UNCHANGED <<storage_vars, usage_calls>>
       ELSE /\ Called([op |-> "mint", sender |-> sender, owner |-> owner,
                       token_info |-> token_info], "ok")
            /\ ledger' = Put(ledger, last_token_id, owner)
            /\ token_metadata' = Put(token_metadata, last_token_id,
                                     [token_id |-> last_token_id, token_info |-> token_info])
            /\ usage_calls' = Put(usage_calls, last_token_id, 0)
            /\ UNCHANGED <<last_token_id, operators, administrator, metadata>>

mint(sender, owner, token_info) ==
    /\ last_token_id < MaxTokens
    /\ IF ~is_administrator(sender)
       THEN /\ Called([op |-> "mint", sender |-> sender, owner |-> owner,
                       token_info |-> token_info], "FA2_NOT_ADMIN")
            /\ UNCHANGED <<storage_vars, usage_calls>>
       ELSE /\ Called([op |-> "mint", sender |-> sender, owner |-> owner,
                       token_info |-> token_info], "ok")
            /\ ledger' = Put(ledger, last_token_id, owner)
            /\ token_metadata' = Put(token_metadata, last_token_id,
                                     [token_id |-> last_token_id, token_info |-> token_info])
            /\ last_token_id' = last_token_id + 1
            /\ usage_calls' = Put(usage_calls, last_token_id, 0)
            /\ UNCHANGED <<operators, administrator, metadata>>

\* mutant: a token id that is not registered gets an entry with a counter of 0
update_usage_creates_entry(sender, token_id) ==
    LET r == update_usage_result(token_id)
        c == [op |-> "update_usage", sender |-> sender, token_id |-> token_id]
    IN  /\ r.err = "ok" => get_usage(token_id) < MaxUsage
        /\ Called(c, r.err)
        /\ IF r.err = "ok"
           THEN /\ token_metadata' = r.val
                /\ usage_calls' = Put(usage_calls, token_id, usage_calls[token_id] + 1)
                /\ UNCHANGED <<ledger, last_token_id, operators, administrator, metadata>>
           ELSE IF token_id \notin DOMAIN token_metadata
           THEN /\ token_metadata' = Put(token_metadata, token_id,
                                         [token_id |-> token_id, token_info |-> InfoUsage])
                /\ usage_calls' = Put(usage_calls, token_id, 0)
                /\ UNCHANGED <<ledger, last_token_id, operators, administrator, metadata>>
           ELSE UNCHANGED <<storage_vars, usage_calls>>

update_usage(sender, token_id) ==
    LET r == update_usage_result(token_id)
        c == [op |-> "update_usage", sender |-> sender, token_id |-> token_id]
    IN  /\ r.err = "ok" => get_usage(token_id) < MaxUsage
        /\ Called(c, r.err)
        /\ IF r.err = "ok"
           THEN /\ token_metadata' = r.val
                /\ usage_calls' = Put(usage_calls, token_id, usage_calls[token_id] + 1)
                /\ UNCHANGED <<ledger, last_token_id, operators, administrator, metadata>>
           ELSE UNCHANGED <<storage_vars, usage_calls>>

\* mutant: anybody sets the administrator
set_administrator_unchecked(sender, params) ==
    /\ Called([op |-> "set_administrator", sender |-> sender, params |-> params], "ok")
    /\ administrator' = params
    /\ UNCHANGED <<ledger, token_metadata, last_token_id, operators, metadata, usage_calls>>

set_administrator(sender, params) ==
    /\ Called([op |-> "set_administrator", sender |-> sender, params |-> params],
              IF is_administrator(sender) THEN "ok" ELSE "FA2_NOT_ADMIN")
    /\ IF is_administrator(sender)
       THEN /\ administrator' = params
            /\ UNCHANGED <<ledger, token_metadata, last_token_id, operators, metadata, usage_calls>>
       ELSE UNCHANGED <<storage_vars, usage_calls>>

\* mutant: the administrator check is missing
set_metadata_unchecked(sender, m) ==
    /\ Called([op |-> "set_metadata", sender |-> sender, metadata |-> m], "ok")
    /\ metadata' = m
    /\ UNCHANGED <<ledger, token_metadata, last_token_id, operators, administrator, usage_calls>>

set_metadata(sender, m) ==
    /\ Called([op |-> "set_metadata", sender |-> sender, metadata |-> m],
              IF is_administrator(sender) THEN "ok" ELSE "FA2_NOT_ADMIN")
    /\ IF is_administrator(sender)
       THEN /\ metadata' = m
            /\ UNCHANGED <<ledger, token_metadata, last_token_id, operators, administrator, usage_calls>>
       ELSE UNCHANGED <<storage_vars, usage_calls>>

update_operators(sender, batch) ==
    LET r == update_operators_batch(Ok(operators), sender, batch, 1)
    IN  /\ r.err = "ok" => Cardinality(r.val) <= MaxOperators
        /\ Called([op |-> "update_operators", sender |-> sender, batch |-> batch], r.err)
        /\ IF r.err = "ok"
           THEN /\ operators' = r.val
                /\ UNCHANGED <<ledger, token_metadata, last_token_id, administrator, metadata, usage_calls>>
           ELSE UNCHANGED <<storage_vars, usage_calls>>

\* mutant: the grants for the tokens a successful call moves are cleared
transfer_clears_operators(sender, batch) ==
    LET r == transfer_batch(Ok(ledger), sender, batch, 1)
    IN  /\ Called([op |-> "transfer", sender |-> sender, batch |-> batch], r.err)
        /\ IF r.err = "ok"
           THEN /\ ledger' = r.val
                /\ operators' = {p \in operators :
                                    \A i \in 1..Len(batch) : \A j \in 1..Len(batch[i].txs) :
                                       batch[i].txs[j].amount > 0
                                          => batch[i].txs[j].token_id # p.token_id}
                /\ UNCHANGED <<token_metadata, last_token_id, administrator, metadata, usage_calls>>
           ELSE UNCHANGED <<storage_vars, usage_calls>>

\* mutant: the legs applied before the failing one are kept
transfer_keeps_partial(sender, batch) ==
    LET r == transfer_batch(Ok(ledger), sender, batch, 1)
    IN  /\ Called([op |-> "transfer", sender |-> sender, batch |-> batch], r.err)
        /\ ledger' = r.val
        /\ UNCHANGED <<token_metadata, last_token_id, operators, administrator, metadata, usage_calls>>

transfer(sender, batch) ==
    LET r == transfer_batch(Ok(ledger), sender, batch, 1)
    IN  /\ Called([op |-> "transfer", sender |-> sender, batch |-> batch], r.err)
        /\ IF r.err = "ok"
           THEN /\ ledger' = r.val
                /\ UNCHANGED <<token_metadata, last_token_id, operators, administrator, metadata, usage_calls>>
           ELSE UNCHANGED <<storage_vars, usage_calls>>

\* Common.balance_of: the answers of balance_of_batch are sent, with 0 mutez, to
\* the callback; a failed call emits nothing
balance_of(sender, params) ==
    LET r == balance_of_batch(params.requests)
    IN  /\ Emitted([op |-> "balance_of", sender |-> sender, params |-> params], r.err,
                   IF r.err = "ok"
                   THEN <<[parameter |-> r.val, amount |-> 0,
                           destination |-> params.callback]>>
                   ELSE <<>>)
        /\ UNCHANGED <<storage_vars, usage_calls>>

\* the host has applied the call, recorded its result and taken the operations
\* it emitted; the next call may come
Receipt ==
    /\ call # Idle
    /\ call' = Idle
    /\ result' = "ok"
    /\ pre' = Storage
    /\ operations' = <<>>
    /\ UNCHANGED <<storage_vars, usage_calls>>

(* --------------------------- the calls made --------------------------- *)

\* sequences over S of length at most n
SeqUpTo(S, n) == UNION {[1..k -> S] : k \in 0..n}

\* the grants the callers ask for: carol as the operator of token 0
Permissions == [owner : Addresses, operator : {"carol"}, token_id : {0}]
Actions == [kind : {"add_operator", "remove_operator"}, permission : Permissions]
ActionLists == SeqUpTo(Actions, 2)

Txs == [to_ : Addresses, token_id : TokenIds, amount : Amounts]
\* the batches of at most one leg
Batches1 == {<<>>} \cup {<<[from_ |-> f, txs |-> t]>> : f \in Addresses, t \in SeqUpTo(Txs, 1)}

\* the balance_of calls: at most two requests, answered to one callback contract
Requests == [owner : Addresses, token_id : TokenIds]
Callbacks == {"KT1callback"}
BalanceOfParams == [requests : SeqUpTo(Requests, 2), callback : Callbacks]

Init ==
    /\ ledger = initial_mint.ledger
    /\ token_metadata = initial_mint.token_metadata
    /\ last_token_id = 0
    /\ operators = {}
    /\ administrator = "abby"
    /\ metadata = metadata_of_url("ipfs://QmRbm")
    /\ call = Idle
    /\ result = "ok"
    /\ pre = Storage
    /\ usage_calls = <<>>
    /\ operations = <<>>

\* every entry point, called by anybody; the tokens are minted without a usage
\* counter (SpecUsage has the counter), the transfers have at most one leg
\* (SpecBatch has two)
Next ==
    \/ /\ call = Idle
       /\ \E sender \in Addresses, owner \in Addresses : mint(sender, owner, InfoNoUsage)
    \/ /\ call = Idle
       /\ \E sender \in Addresses, token_id \in TokenIds : update_usage(sender, token_id)
    \/ /\ call = Idle
       /\ \E sender \in Addresses, params \in Addresses : set_administrator(sender, params)
    \/ /\ call = Idle
       /\ \E sender \in Addresses, m \in Metadatas : set_metadata(sender, m)
    \/ /\ call = Idle
       /\ \E sender \in Addresses, batch \in ActionLists : update_operators(sender, batch)
    \/ /\ call = Idle
       /\ \E sender \in Addresses, batch \in Batches1 : transfer(sender, batch)
    \/ /\ call = Idle
       /\ \E sender \in Addresses, params \in BalanceOfParams : balance_of(sender, params)
    \/ Receipt

Spec == Init /\ [][Next]_vars

(* ------------------- two-leg batches (SpecBatch) ---------------------- *)

\* the legs of the two-leg batches: the first on token 0, the second on token 0
\* or on MaxTokens, which is never defined
Txs2a == [to_ : Addresses, token_id : {0}, amount : Amounts]
Txs2b == [to_ : Addresses, token_id : {0, MaxTokens}, amount : Amounts]
\* two txs of one transfer, and two transfers (of two owners) of one tx each
Batches2 ==
    {<<[from_ |-> f, txs |-> <<t1, t2>>]>> : f \in Addresses, t1 \in Txs2a, t2 \in Txs2b}
    \cup {<<[from_ |-> f[1], txs |-> <<t1>>], [from_ |-> f[2], txs |-> <<t2>>]>> :
            f \in {g \in Addresses \X Addresses : g[1] # g[2]}, t1 \in Txs2a, t2 \in Txs2b}

\* the entry points that decide a transfer: mint, update_operators and transfer
NextBatch ==
    \/ /\ call = Idle
       /\ \E sender \in Addresses, owner \in Addresses : mint(sender, owner, InfoNoUsage)
    \/ /\ call = Idle
       /\ \E sender \in Addresses, batch \in SeqUpTo(Actions, 1) :
            update_operators(sender, batch)
    \/ /\ call = Idle
       /\ \E sender \in Addresses, batch \in Batches1 \cup Batches2 : transfer(sender, batch)
    \/ Receipt

SpecBatch == Init /\ [][NextBatch]_vars

(* ------------------- the usage counter (SpecUsage) -------------------- *)

Infos == {InfoUsage, InfoNoUsage}
\* the other calls interleaved with update_usage: one leg of amount 1, one grant
UsageBatches ==
    {<<[from_ |-> f, txs |-> <<[to_ |-> t, token_id |-> i, amount |-> 1]>>]>> :
        f \in Addresses, t \in Addresses, i \in TokenIds}
UsageActionLists ==
    {<<[kind |-> k, permission |-> [owner |-> "tanoy", operator |-> "carol", token_id |-> 0]]>> :
        k \in {"add_operator", "remove_operator"}}

NextUsage ==
    \/ /\ call = Idle
       /\ \E sender \in Addresses, owner \in Addresses, token_info \in Infos :
            mint(sender, owner, token_info)
    \/ /\ call = Idle
       /\ \E sender \in Addresses, token_id \in TokenIds : update_usage(sender, token_id)
    \/ /\ call = Idle
       /\ \E sender \in Addresses, params \in Addresses : set_administrator(sender, params)
    \/ /\ call = Idle
       /\ \E sender \in Addresses, batch \in UsageActionLists : update_operators(sender, batch)
    \/ /\ call = Idle
       /\ \E sender \in Addresses, batch \in UsageBatches : transfer(sender, batch)
    \/ Receipt

SpecUsage == Init /\ [][NextUsage]_vars

(* ======================= properties of the contract ================== *)

RECURSIVE Legs(_)
\* the legs (from_, tx) of a transfer batch in the order the loops visit them
Legs(batch) ==
    IF batch = <<>> THEN <<>>
    ELSE [i \in 1..Len(batch[1].txs) |->
             [from_ |-> batch[1].from_, to_ |-> batch[1].txs[i].to_,
              token_id |-> batch[1].txs[i].token_id, amount |-> batch[1].txs[i].amount]]
         \o Legs(Tail(batch))

Max(S) == CHOOSE x \in S : \A y \in S : y <= x
Min(S) == CHOOSE x \in S : \A y \in S : x <= y

RECURSIVE SumOver(_, _)
\* the sum of the balances balance_ reports for token id over the addresses S
SumOver(S, id) ==
    IF S = {} THEN 0
    ELSE LET a == CHOOSE x \in S : TRUE
         IN  balance_(a, id).val + SumOver(S \ {a}, id)

\* the caller of the last call is from_ or holds from_'s grant for the leg's token
LegAuthorized(leg) ==
    \/ call.sender = leg.from_
    \/ [owner |-> leg.from_, operator |-> call.sender, token_id |-> leg.token_id]
           \in pre.operators

\* C1: every defined token has exactly one owner: balance_ is 0 or 1 for every
\* address, at most one address has balance 1, and the balances sum to supply_ = 1
C1_OwnershipUnique ==
    \A id \in DOMAIN token_metadata :
        /\ \A a \in Addresses : balance_(a, id) \in {Ok(0), Ok(1)}
        /\ Cardinality({a \in Addresses : balance_(a, id) = Ok(1)}) <= 1
        /\ supply_(id) = Ok(1)
        /\ SumOver(Addresses, id) = supply_(id).val

\* two tokens exist and a transfer has just moved one of them
C1_Witness ==
    /\ call.op = "transfer"
    /\ result = "ok"
    /\ last_token_id = 2
    /\ ledger # pre.ledger

\* C2: a transfer call that fails leaves the whole storage as it was before the call
C2_AtomicBatch ==
    (call.op = "transfer" /\ result # "ok") => Storage = pre

\* a two-leg batch failed at leg 2 after a leg 1 that moves a token on its own
C2_Witness ==
    /\ call.op = "transfer"
    /\ result # "ok"
    /\ Len(Legs(call.batch)) = 2
    /\ LET l == Legs(call.batch)[1]
       IN  /\ l.token_id \in DOMAIN pre.ledger
           /\ l.token_id \in DOMAIN pre.token_metadata
           /\ pre.ledger[l.token_id] = l.from_
           /\ l.amount = 1
           /\ l.to_ # l.from_
           /\ LegAuthorized(l)

\* the owner of token t when leg k starts, if the legs before k all passed
OwnerBefore(legs, k, t) ==
    LET moved == {j \in 1..(k - 1) : legs[j].token_id = t /\ legs[j].amount > 0}
    IN  IF moved = {} THEN pre.ledger[t] ELSE legs[Max(moved)].to_

\* the first check leg k fails, in the order existence, authorization, balance
LegError(legs, k) ==
    IF legs[k].token_id \notin DOMAIN pre.token_metadata THEN "FA2_TOKEN_UNDEFINED"
    ELSE IF ~LegAuthorized(legs[k]) THEN "FA2_NOT_OPERATOR"
    ELSE IF legs[k].amount > 0
            /\ ~(legs[k].amount = 1 /\ OwnerBefore(legs, k, legs[k].token_id) = legs[k].from_)
         THEN "FA2_INSUFFICIENT_BALANCE"
    ELSE "ok"

\* the error of the first failing leg of the batch, "ok" if no leg fails
FirstError(legs) ==
    LET failing == {k \in 1..Len(legs) : LegError(legs, k) # "ok"}
    IN  IF failing = {} THEN "ok" ELSE LegError(legs, Min(failing))

\* the legs, among legs, the caller of the last call is not authorized for
UnauthorizedLegs(legs) == {i \in 1..Len(legs) : ~LegAuthorized(legs[i])}

\* C3 as stated: a transfer call with a leg whose caller is neither from_ nor a
\* granted operator fails with FA2_NOT_OPERATOR and leaves the ledger unchanged
C3_Original ==
    call.op = "transfer" =>
        LET legs == Legs(call.batch)
        IN  UnauthorizedLegs(legs) # {}
                => (result = "FA2_NOT_OPERATOR" /\ ledger = pre.ledger)

\* C3 (amended): a transfer call with a leg whose caller is neither from_ nor a
\* granted operator always fails and leaves the storage unchanged; the error is
\* FA2_NOT_OPERATOR when the leg's token is defined and no earlier leg fails
\* (an undefined token fails FA2_TOKEN_UNDEFINED before the permission is looked at)
C3_AuthorizationGate ==
    call.op = "transfer" =>
        LET legs == Legs(call.batch)
            unauthorized == UnauthorizedLegs(legs)
        IN  unauthorized # {}
                => /\ result \in {"FA2_NOT_OPERATOR", "FA2_TOKEN_UNDEFINED",
                                  "FA2_INSUFFICIENT_BALANCE"}
                   /\ Storage = pre
                   /\ \A k \in unauthorized :
                        (/\ legs[k].token_id \in DOMAIN pre.token_metadata
                         /\ \A j \in 1..(k - 1) : LegError(legs, j) = "ok")
                            => result = "FA2_NOT_OPERATOR"

\* a caller who is neither the owner nor an operator tried to move a token that
\* from_ owns, with amount 1, and was refused
C3_Witness ==
    /\ call.op = "transfer"
    /\ result = "FA2_NOT_OPERATOR"
    /\ Len(Legs(call.batch)) >= 1
    /\ LET l == Legs(call.batch)[1]
       IN  /\ ~LegAuthorized(l)
           /\ l.amount = 1
           /\ l.token_id \in DOMAIN pre.ledger
           /\ pre.ledger[l.token_id] = l.from_
           /\ l.to_ = call.sender

\* C4: a transfer call reports the error of the first failing check, legs scanned
\* in batch order and, within a leg, existence before authorization before balance
C4_CheckOrdering ==
    call.op = "transfer" => result = FirstError(Legs(call.batch))

\* leg 1 passes; leg 2 is by an unauthorized caller, of amount 2 and from an
\* address that does not own the token: the call reports FA2_NOT_OPERATOR
C4_Witness ==
    /\ call.op = "transfer"
    /\ Len(Legs(call.batch)) = 2
    /\ LET legs == Legs(call.batch)
       IN  /\ LegError(legs, 1) = "ok"
           /\ legs[1].amount = 1
           /\ ~LegAuthorized(legs[2])
           /\ legs[2].amount = 2
           /\ legs[2].token_id \in DOMAIN pre.token_metadata
           /\ OwnerBefore(legs, 2, legs[2].token_id) # legs[2].from_
    /\ result = "FA2_NOT_OPERATOR"

\* the operator set a successful update_operators call leaves: a permission is
\* granted iff the last action naming it adds it, or none names it and it was granted
FinalOperators(batch) ==
    {p \in pre.operators \cup {batch[i].permission : i \in 1..Len(batch)} :
        LET naming == {i \in 1..Len(batch) : batch[i].permission = p}
        IN  IF naming = {} THEN p \in pre.operators
            ELSE batch[Max(naming)].kind = "add_operator"}

\* C5: an update_operators call whose actions all name the caller as owner never
\* fails, whether or not a permission it adds is already granted or one it removes
\* is absent, and repeating an action changes nothing: the set it leaves is the
\* one its last action on each permission decides
C5_GrantRevokeIdempotent ==
    (call.op = "update_operators"
     /\ \A i \in 1..Len(call.batch) : call.batch[i].permission.owner = call.sender)
        => /\ result = "ok"
           /\ operators = FinalOperators(call.batch)
           /\ \A i \in 1..Len(call.batch) :
                (\A j \in (i + 1)..Len(call.batch) : call.batch[j] = call.batch[i])
                    => (is_operator(call.batch[i].permission)
                            <=> call.batch[i].kind = "add_operator")

\* a permission that was not granted is removed twice in one call
C5_Witness ==
    /\ call.op = "update_operators"
    /\ result = "ok"
    /\ Len(call.batch) = 2
    /\ call.batch[1] = call.batch[2]
    /\ call.batch[1].kind = "remove_operator"
    /\ call.batch[1].permission \notin pre.operators
    /\ pre.operators # {}
    /\ ~is_operator(call.batch[1].permission)

\* C6: a mint call sent by the administrator succeeds, gives the new token the id
\* last_token_id had before the call, registers its token_info under that id, makes
\* the given owner its ledger owner and adds exactly 1 to last_token_id; the tokens
\* that existed, the operators, the administrator and the metadata are unchanged
C6_Mint ==
    (call.op = "mint" /\ call.sender = pre.administrator)
        => /\ result = "ok"
           /\ last_token_id = pre.last_token_id + 1
           /\ DOMAIN ledger = DOMAIN pre.ledger \cup {pre.last_token_id}
           /\ DOMAIN token_metadata = DOMAIN pre.token_metadata \cup {pre.last_token_id}
           /\ get_owner(pre.last_token_id) = call.owner
           /\ token_metadata[pre.last_token_id] =
                [token_id |-> pre.last_token_id, token_info |-> call.token_info]
           /\ \A t \in DOMAIN pre.ledger : ledger[t] = pre.ledger[t]
           /\ \A t \in DOMAIN pre.token_metadata : token_metadata[t] = pre.token_metadata[t]
           /\ operators = pre.operators
           /\ administrator = pre.administrator
           /\ metadata = pre.metadata

\* the administrator minted a second token, to somebody else than the first one's owner
C6_Witness ==
    /\ call.op = "mint"
    /\ result = "ok"
    /\ pre.last_token_id = 1
    /\ ledger[1] # ledger[0]
    /\ token_metadata[1].token_info # token_metadata[0].token_info
    /\ pre.operators # {}

\* C7: mint, set_administrator and set_metadata sent by anybody but the
\* administrator fail with FA2_NOT_ADMIN and leave the whole storage unchanged
C7_AdminGate ==
    (call.op \in {"mint", "set_administrator", "set_metadata"}
     /\ call.sender # pre.administrator)
        => (result = "FA2_NOT_ADMIN" /\ Storage = pre)

\* somebody who is not the administrator tried to set the metadata of a contract
\* that holds a token and whose administrator has changed since origination
C7_Witness ==
    /\ call.op = "set_metadata"
    /\ call.sender # pre.administrator
    /\ call.metadata # pre.metadata
    /\ result = "FA2_NOT_ADMIN"
    /\ pre.last_token_id > 0
    /\ pre.administrator # "abby"

\* C8: a one-leg transfer of amount # 0 on a defined token by an authorized caller
\* succeeds iff amount = 1 and from_ is the token's owner, and then the owner is
\* to_ and nothing else changed; otherwise it fails FA2_INSUFFICIENT_BALANCE.  After
\* a successful transfer from A to B # A sent by A, the same call made again fails
\* FA2_INSUFFICIENT_BALANCE (the owner stays B)
C8_BalanceRule ==
    (call.op = "transfer" /\ Len(Legs(call.batch)) = 1)
        => LET l == Legs(call.batch)[1]
           IN  (/\ l.token_id \in DOMAIN pre.token_metadata
                /\ LegAuthorized(l)
                /\ l.amount # 0)
                   => IF l.amount = 1 /\ pre.ledger[l.token_id] = l.from_
                      THEN /\ result = "ok"
                           /\ get_owner(l.token_id) = l.to_
                           /\ DOMAIN ledger = DOMAIN pre.ledger
                           /\ \A t \in DOMAIN ledger \ {l.token_id} : ledger[t] = pre.ledger[t]
                           /\ [Storage EXCEPT !.ledger = pre.ledger] = pre
                           /\ (l.to_ # l.from_ /\ call.sender = l.from_)
                                => /\ transfer_batch(Ok(ledger), call.sender, call.batch, 1).err
                                        = "FA2_INSUFFICIENT_BALANCE"
                                   /\ get_owner(l.token_id) = l.to_
                      ELSE result = "FA2_INSUFFICIENT_BALANCE" /\ Storage = pre

\* the owner moved a token to another address
C8_Witness ==
    /\ call.op = "transfer"
    /\ result = "ok"
    /\ Len(Legs(call.batch)) = 1
    /\ LET l == Legs(call.batch)[1]
       IN  /\ l.amount = 1
           /\ l.to_ # l.from_
           /\ call.sender = l.from_
           /\ pre.ledger[l.token_id] = l.from_
           /\ ledger[l.token_id] = l.to_

\* the value of the usage counter in a token_info, None if it cannot be read
UsageOf(token_info) ==
    IF "usage" \in DOMAIN token_info THEN unpack(token_info["usage"]) ELSE None

\* C9: update_usage, whoever sends it, succeeds on every registered token whose
\* usage counter can be read, sets the counter n to n + 1 and changes nothing else;
\* the counter of a token minted with usage 0 is the number of successful
\* update_usage calls on it
C9_UpdateUsage ==
    /\ call.op = "update_usage" =>
         LET t == call.token_id
         IN  /\ result = "ok" <=>
                  (t \in DOMAIN pre.token_metadata /\ UsageOf(pre.token_metadata[t].token_info).some)
             /\ result = "ok" =>
                  /\ get_usage(t) = UsageOf(pre.token_metadata[t].token_info).value + 1
                  /\ unpack(token_metadata[t].token_info["usage"]).some
                  /\ token_metadata[t].token_id = pre.token_metadata[t].token_id
                  /\ DOMAIN token_metadata[t].token_info = DOMAIN pre.token_metadata[t].token_info
                  /\ \A k \in DOMAIN token_metadata[t].token_info \ {"usage"} :
                        token_metadata[t].token_info[k] = pre.token_metadata[t].token_info[k]
                  /\ DOMAIN token_metadata = DOMAIN pre.token_metadata
                  /\ \A u \in DOMAIN token_metadata \ {t} : token_metadata[u] = pre.token_metadata[u]
                  /\ [Storage EXCEPT !.token_metadata = pre.token_metadata] = pre
    /\ \A t \in DOMAIN token_metadata :
         "usage" \in DOMAIN token_metadata[t].token_info
            => UsageOf(token_metadata[t].token_info) = Some(usage_calls[t])

\* the usage of a token reached 2 by a call of somebody who is neither its owner
\* nor the administrator, after the token changed hands
C9_Witness ==
    /\ call.op = "update_usage"
    /\ result = "ok"
    /\ get_usage(call.token_id) = 2
    /\ call.sender # administrator
    /\ call.sender # ledger[call.token_id]
    /\ operators # {}
    /\ last_token_id = 2

\* C10: an update_operators call with an action whose permission names another
\* owner than the caller fails with FA2_NOT_OWNER and leaves the storage, the
\* effect of its earlier actions included, unchanged; so a permission enters or
\* leaves the operator set only by an update_operators call sent by its owner
C10_OnlyOwnerGrants ==
    /\ (call.op = "update_operators"
        /\ \E i \in 1..Len(call.batch) : call.batch[i].permission.owner # call.sender)
           => (result = "FA2_NOT_OWNER" /\ Storage = pre)
    /\ \A p \in (operators \ pre.operators) \cup (pre.operators \ operators) :
           /\ call.op = "update_operators"
           /\ result = "ok"
           /\ call.sender = p.owner

\* the caller's own grant, the first action of the call, is not kept when the
\* second action names another owner
C10_Witness ==
    /\ call.op = "update_operators"
    /\ result = "FA2_NOT_OWNER"
    /\ Len(call.batch) = 2
    /\ call.batch[1].kind = "add_operator"
    /\ call.batch[1].permission.owner = call.sender
    /\ call.batch[1].permission \notin pre.operators
    /\ call.batch[2].permission.owner # call.sender
    /\ ~is_operator(call.batch[1].permission)

\* C11: token ids are assigned contiguously from 0: the registered ids are
\* exactly 0 .. last_token_id - 1, each registered under its own id; all_tokens
\* lists exactly the registered ids in increasing order; last_token_id never
\* decreases; a successful mint writes an id that had neither a registry entry
\* nor a ledger entry and leaves the entries that existed as they were
C11_ContiguousIds ==
    /\ DOMAIN token_metadata = 0..(last_token_id - 1)
    /\ \A t \in DOMAIN token_metadata : token_metadata[t].token_id = t
    /\ Len(all_tokens) = last_token_id
    /\ {all_tokens[i] : i \in 1..Len(all_tokens)} = DOMAIN token_metadata
    /\ \A i \in 1..Len(all_tokens), j \in 1..Len(all_tokens) :
          i < j => all_tokens[i] < all_tokens[j]
    /\ last_token_id >= pre.last_token_id
    /\ (call.op = "mint" /\ result = "ok")
          => /\ pre.last_token_id \notin DOMAIN pre.token_metadata
             /\ pre.last_token_id \notin DOMAIN pre.ledger
             /\ \A t \in DOMAIN pre.token_metadata : token_metadata[t] = pre.token_metadata[t]
             /\ \A t \in DOMAIN pre.ledger : ledger[t] = pre.ledger[t]

\* the second token has just been minted and all_tokens lists the ids 0 and 1
C11_Witness ==
    /\ call.op = "mint"
    /\ result = "ok"
    /\ pre.last_token_id = 1
    /\ all_tokens = <<0, 1>>
    /\ DOMAIN pre.ledger = {0}
    /\ DOMAIN ledger = {0, 1}

\* C12: balance_of, whoever sends it, leaves the storage unchanged; when every
\* request names a defined token it succeeds and emits exactly one operation, to
\* the callback with 0 mutez, whose list has one answer per request in the order
\* of the requests, with balance 1 iff the token's ledger owner is request.owner
\* and 0 otherwise; when a request names an undefined token the call fails
\* FA2_TOKEN_UNDEFINED and emits nothing
C12_BalanceOf ==
    call.op = "balance_of" =>
        LET requests == call.params.requests
        IN  /\ Storage = pre
            /\ IF \A i \in 1..Len(requests) :
                     requests[i].token_id \in DOMAIN pre.token_metadata
               THEN /\ result = "ok"
                    /\ Len(operations) = 1
                    /\ operations[1].destination = call.params.callback
                    /\ operations[1].amount = 0
                    /\ Len(operations[1].parameter) = Len(requests)
                    /\ \A i \in 1..Len(requests) :
                         /\ operations[1].parameter[i].request = requests[i]
                         /\ operations[1].parameter[i].balance =
                              (IF pre.ledger[requests[i].token_id] = requests[i].owner
                               THEN 1 ELSE 0)
               ELSE /\ result = "FA2_TOKEN_UNDEFINED"
                    /\ operations = <<>>

\* somebody who is neither the administrator nor the owner of a token asked for
\* the balances of two addresses and got 0 then 1
C12_Witness ==
    /\ call.op = "balance_of"
    /\ result = "ok"
    /\ call.sender # administrator
    /\ \A t \in DOMAIN ledger : ledger[t] # call.sender
    /\ Len(call.params.requests) = 2
    /\ Len(operations) = 1
    /\ operations[1].parameter[1].balance = 0
    /\ operations[1].parameter[2].balance = 1
    /\ operations[1].parameter[1].request # operations[1].parameter[2].request

\* C13: the transfer authorization is owner-or-operator, per token and per current
\* grant.  A one-leg transfer on a defined token sent by C with from_ = A fails
\* FA2_NOT_OPERATOR iff C # A and (A, C, token_id) is not granted when the call
\* is made; an operator holding (A, O, t) moves t from A while A owns it; its
\* grant for t does not authorize it for another token of A; and in the state
\* a successful update_operators call leaves after removing (A, O, t), O # A, a
\* transfer of t from A by O fails FA2_NOT_OPERATOR, in the state one leaves
\* after adding it the same transfer passes the authorization
C13_OwnerOrOperator ==
    /\ (call.op = "transfer" /\ Len(Legs(call.batch)) = 1) =>
         LET l == Legs(call.batch)[1]
             granted(t) == [owner |-> l.from_, operator |-> call.sender, token_id |-> t]
                               \in pre.operators
         IN  l.token_id \in DOMAIN pre.token_metadata =>
               /\ result = "FA2_NOT_OPERATOR"
                    <=> ~(call.sender = l.from_ \/ granted(l.token_id))
               /\ (granted(l.token_id) /\ pre.ledger[l.token_id] = l.from_ /\ l.amount = 1)
                    => (result = "ok" /\ ledger[l.token_id] = l.to_)
               /\ (call.sender # l.from_ /\ ~granted(l.token_id)
                   /\ \E t \in DOMAIN pre.token_metadata : granted(t))
                    => (result = "FA2_NOT_OPERATOR" /\ Storage = pre)
    /\ (call.op = "update_operators" /\ result = "ok") =>
         \A i \in 1..Len(call.batch) :
            LET p == call.batch[i].permission
                moved(to_, amount) ==
                    transfer_batch(Ok(ledger), p.operator,
                                   <<[from_ |-> p.owner,
                                      txs |-> <<[to_ |-> to_, token_id |-> p.token_id,
                                                 amount |-> amount]>>]>>, 1)
            IN  (p.operator # p.owner /\ is_defined(p.token_id)) =>
                  \A to_ \in Addresses, amount \in Amounts :
                     /\ (p \in pre.operators /\ ~is_operator(p))
                          => moved(to_, amount).err = "FA2_NOT_OPERATOR"
                     /\ is_operator(p) => moved(to_, amount).err # "FA2_NOT_OPERATOR"

\* carol holds tanoy's grant for token 0 only and is refused token 1, which tanoy owns
C13_Witness ==
    /\ call.op = "transfer"
    /\ call.sender = "carol"
    /\ result = "FA2_NOT_OPERATOR"
    /\ Len(Legs(call.batch)) = 1
    /\ LET l == Legs(call.batch)[1]
       IN  /\ l.token_id = 1
           /\ l.amount = 1
           /\ 1 \in DOMAIN pre.ledger
           /\ pre.ledger[1] = l.from_
           /\ pre.ledger[0] = l.from_
           /\ [owner |-> l.from_, operator |-> "carol", token_id |-> 0] \in pre.operators

\* C14: a transfer leg of amount 0 never mutates the ledger and passes even when
\* from_ is not the owner of the token, but the existence and the authorization
\* checks apply to it.  A token named only by legs of amount 0 keeps its owner; a
\* leg of amount 0 reached with no earlier failure fails FA2_TOKEN_UNDEFINED on an
\* undefined token, FA2_NOT_OPERATOR when the caller is neither from_ nor its
\* operator for the token, and passes otherwise whoever owns the token; a call
\* whose legs all have amount 0 leaves the storage unchanged
C14_ZeroAmount ==
    call.op = "transfer" =>
        LET legs == Legs(call.batch)
            zero == {k \in 1..Len(legs) : legs[k].amount = 0}
        IN  /\ \A t \in DOMAIN pre.ledger :
                  (\A k \in 1..Len(legs) : legs[k].token_id = t => k \in zero)
                      => ledger[t] = pre.ledger[t]
            /\ zero = 1..Len(legs) => Storage = pre
            /\ \A k \in zero :
                  (\A j \in 1..(k - 1) : LegError(legs, j) = "ok") =>
                      IF legs[k].token_id \notin DOMAIN pre.token_metadata
                      THEN result = "FA2_TOKEN_UNDEFINED"
                      ELSE IF ~LegAuthorized(legs[k])
                      THEN result = "FA2_NOT_OPERATOR"
                      ELSE /\ result # "FA2_INSUFFICIENT_BALANCE"
                                \/ \E j \in (k + 1)..Len(legs) : legs[j].amount # 0
                           /\ k = Len(legs) => result = "ok"

\* the owner moved token 0 away and, in the same call, named it again with
\* amount 0: the second leg passes although from_ does not own the token any more
C14_Witness ==
    /\ call.op = "transfer"
    /\ result = "ok"
    /\ Len(Legs(call.batch)) = 2
    /\ LET legs == Legs(call.batch)
       IN  /\ legs[1].amount = 1
           /\ legs[2].amount = 0
           /\ legs[1].token_id = legs[2].token_id
           /\ legs[2].from_ = call.sender
           /\ legs[1].to_ # legs[2].from_
           /\ pre.ledger[legs[1].token_id] = legs[1].from_
           /\ ledger[legs[2].token_id] = legs[1].to_
           /\ ledger[legs[2].token_id] # legs[2].from_
           /\ legs[2].to_ # ledger[legs[2].token_id]

\* C15: the legs of a transfer call are applied in the order given and a later leg
\* sees the ledger as the earlier legs left it.  For two legs of amount 1 on the
\* same defined token, of two owners A # B the caller is authorized for: when A
\* owns the token the batch [A -> B, B -> C] succeeds and leaves the owner C; the
\* same legs in the other order, [B -> C, A -> B], fail FA2_INSUFFICIENT_BALANCE
\* and leave the owner A and the rest of the storage as they were
C15_LegOrder ==
    (call.op = "transfer" /\ Len(Legs(call.batch)) = 2) =>
        LET first == Legs(call.batch)[1]
            second == Legs(call.batch)[2]
            t == first.token_id
        IN  (/\ second.token_id = t
             /\ t \in DOMAIN pre.token_metadata
             /\ first.amount = 1
             /\ second.amount = 1
             /\ first.from_ # second.from_
             /\ LegAuthorized(first)
             /\ LegAuthorized(second))
                => /\ (pre.ledger[t] = first.from_ /\ first.to_ = second.from_)
                        => (result = "ok" /\ get_owner(t) = second.to_)
                   /\ (pre.ledger[t] = second.from_ /\ second.to_ = first.from_)
                        => /\ result = "FA2_INSUFFICIENT_BALANCE"
                           /\ get_owner(t) = second.from_
                           /\ Storage = pre

\* one call moved token 0 from its owner A to B and from B to a third address
C15_Witness ==
    /\ call.op = "transfer"
    /\ result = "ok"
    /\ Len(Legs(call.batch)) = 2
    /\ LET first == Legs(call.batch)[1]
           second == Legs(call.batch)[2]
       IN  /\ first.token_id = 0
           /\ second.token_id = 0
           /\ first.amount = 1
           /\ second.amount = 1
           /\ pre.ledger[0] = first.from_
           /\ first.to_ = second.from_
           /\ first.from_ # second.from_
           /\ second.to_ \notin {first.from_, second.from_}
           /\ ledger[0] = second.to_

\* C16: update_usage on a token id that is not registered, or on a registered
\* token whose token_info has no "usage" key, fails on the map lookup (no
\* is_defined check runs before it, so the error is not one of the FA2_ errors)
\* and leaves the storage unchanged; no update_usage call, failed or not, adds a
\* registry entry, a ledger entry or a key to a token_info
C16_UpdateUsageMissing ==
    call.op = "update_usage" =>
        LET t == call.token_id
        IN  /\ (\/ t \notin DOMAIN pre.token_metadata
                \/ "usage" \notin DOMAIN pre.token_metadata[t].token_info)
                  => /\ result = MissingKey
                     /\ result \notin {"ok", "FA2_TOKEN_UNDEFINED", "FA2_NOT_ADMIN",
                                       "FA2_NOT_OPERATOR", "FA2_NOT_OWNER",
                                       "FA2_INSUFFICIENT_BALANCE"}
                     /\ Storage = pre
            /\ DOMAIN token_metadata = DOMAIN pre.token_metadata
            /\ DOMAIN ledger = DOMAIN pre.ledger
            /\ \A u \in DOMAIN token_metadata :
                  DOMAIN token_metadata[u].token_info = DOMAIN pre.token_metadata[u].token_info

\* the administrator, who owns it, called update_usage on a token minted without
\* a usage key, while the other token has one
C16_Witness ==
    /\ call.op = "update_usage"
    /\ result = MissingKey
    /\ call.token_id \in DOMAIN token_metadata
    /\ "usage" \notin DOMAIN token_metadata[call.token_id].token_info
    /\ call.sender = administrator
    /\ ledger[call.token_id] = call.sender
    /\ \E u \in DOMAIN token_metadata : "usage" \in DOMAIN token_metadata[u].token_info

\* C17: the administrator changes only by a successful set_administrator call
\* sent by the administrator, which sets it to the address given and changes
\* nothing else; mint, transfer, update_operators, update_usage, set_metadata and
\* balance_of leave it as it was.  After a set_administrator to N other than the
\* old administrator, the old one is not the administrator and N is: every
\* admin-gated call fails FA2_NOT_ADMIN iff its sender is not the administrator
\* at the time of the call
C17_AdminChange ==
    /\ administrator # pre.administrator
          => /\ call.op = "set_administrator"
             /\ result = "ok"
             /\ call.sender = pre.administrator
             /\ administrator = call.params
    /\ call.op \in {"mint", "transfer", "update_operators", "update_usage",
                    "set_metadata", "balance_of"}
          => administrator = pre.administrator
    /\ call.op = "set_administrator"
          => /\ result = "ok" <=> call.sender = pre.administrator
             /\ result = "ok"
                  => /\ administrator = call.params
                     /\ [Storage EXCEPT !.administrator = pre.administrator] = pre
                     /\ call.params # pre.administrator
                          => /\ ~is_administrator(pre.administrator)
                             /\ is_administrator(call.params)
    /\ call.op \in {"mint", "set_administrator", "set_metadata"}
          => (result = "FA2_NOT_ADMIN" <=> call.sender # pre.administrator)
    /\ (call.op \in {"mint", "set_administrator", "set_metadata"}
        /\ call.sender = "abby" /\ pre.administrator # "abby")
          => (result = "FA2_NOT_ADMIN" /\ Storage = pre)

\* abby, the administrator at origination, handed the role over and her mint is
\* refused
C17_Witness ==
    /\ call.op = "mint"
    /\ call.sender = "abby"
    /\ pre.administrator # "abby"
    /\ result = "FA2_NOT_ADMIN"
    /\ administrator = pre.administrator

\* C18: every ledger entry is of a defined token id (one with a token_metadata
\* entry); a successful mint adds the ledger entry and the registry entry of the
\* same new id in one call and a failed mint adds neither; no call removes a
\* ledger entry or a registry entry, and no call but mint adds one
C18_LedgerDefined ==
    /\ \A t \in DOMAIN ledger : is_defined(t)
    /\ DOMAIN pre.ledger \subseteq DOMAIN ledger
    /\ DOMAIN pre.token_metadata \subseteq DOMAIN token_metadata
    /\ (call.op = "mint" /\ result = "ok")
          => /\ DOMAIN ledger \ DOMAIN pre.ledger = {pre.last_token_id}
             /\ DOMAIN token_metadata \ DOMAIN pre.token_metadata = {pre.last_token_id}
    /\ ~(call.op = "mint" /\ result = "ok")
          => /\ DOMAIN ledger = DOMAIN pre.ledger
             /\ DOMAIN token_metadata = DOMAIN pre.token_metadata

\* the second token has just been minted, after the first one changed hands and
\* had its usage counted
C18_Witness ==
    /\ call.op = "mint"
    /\ result = "ok"
    /\ DOMAIN pre.ledger = {0}
    /\ DOMAIN ledger = {0, 1}
    /\ DOMAIN token_metadata = {0, 1}
    /\ usage_calls[0] > 0
    /\ ledger[0] # ledger[1]

\* C19: every change of the owner of an existing token is authorized by its
\* holder at that moment.  In a successful transfer call every leg that writes
\* ledger[t] (amount > 0) has from_ equal to the owner of t just before the leg,
\* and the sender is that owner or holds that owner's grant for t; the owner the
\* call leaves is the to_ of the last such leg.  The owner of an existing token
\* differs from the one before a call only after a successful transfer call
C19_HolderAuthorizes ==
    /\ \A t \in DOMAIN pre.ledger :
          ledger[t] # pre.ledger[t] => (call.op = "transfer" /\ result = "ok")
    /\ (call.op = "transfer" /\ result = "ok") =>
          LET legs == Legs(call.batch)
          IN  /\ \A k \in 1..Len(legs) :
                    legs[k].amount > 0 =>
                       LET t == legs[k].token_id
                           holder == OwnerBefore(legs, k, t)
                       IN  /\ legs[k].from_ = holder
                           /\ \/ call.sender = holder
                              \/ [owner |-> holder, operator |-> call.sender, token_id |-> t]
                                     \in pre.operators
              /\ \A t \in DOMAIN pre.ledger :
                    ledger[t] = OwnerBefore(legs, Len(legs) + 1, t)

\* carol, who owns nothing, moved token 0 from A to B and from B to a third
\* address in one call, holding the grants of A and of B
C19_Witness ==
    /\ call.op = "transfer"
    /\ result = "ok"
    /\ call.sender = "carol"
    /\ Len(Legs(call.batch)) = 2
    /\ LET legs == Legs(call.batch)
       IN  /\ legs[1].amount = 1
           /\ legs[2].amount = 1
           /\ legs[1].token_id = 0
           /\ legs[2].token_id = 0
           /\ legs[1].from_ # "carol"
           /\ legs[2].from_ # "carol"
           /\ legs[1].from_ # legs[2].from_
           /\ pre.ledger[0] = legs[1].from_
           /\ ledger[0] = legs[2].to_
           /\ ledger[0] # pre.ledger[0]

\* what a transfer of token t, amount 1, from from_ to to_ sent by sender would
\* answer on the storage as it is now
TransferNow(sender, from_, to_, t) ==
    transfer_batch(Ok(ledger), sender,
                   <<[from_ |-> from_, txs |-> <<[to_ |-> to_, token_id |-> t, amount |-> 1]>>]>>,
                   1).err

\* C20: a transfer call leaves the operator set as it was, so a grant (A, O, t),
\* O # A, stays when t changes hands.  In the state a successful transfer of t
\* to a new owner B leaves: if B # A, a transfer of t by O fails
\* FA2_INSUFFICIENT_BALANCE with from_ = A and, unless O is B or holds B's grant,
\* FA2_NOT_OPERATOR with from_ = B; if B = A (t is back with A), a transfer of t
\* from A by O succeeds with no new grant
C20_GrantsSurviveTransfer ==
    call.op = "transfer" =>
        /\ operators = pre.operators
        /\ (result = "ok" /\ Len(Legs(call.batch)) = 1) =>
              LET l == Legs(call.batch)[1]
                  t == l.token_id
              IN  (l.amount = 1 /\ l.to_ # l.from_) =>
                    \A p \in pre.operators :
                       (p.token_id = t /\ p.operator # p.owner) =>
                          /\ is_operator(p)
                          /\ \A to_ \in Addresses :
                                IF get_owner(t) = p.owner
                                THEN TransferNow(p.operator, p.owner, to_, t) = "ok"
                                ELSE /\ TransferNow(p.operator, p.owner, to_, t)
                                            = "FA2_INSUFFICIENT_BALANCE"
                                     /\ (/\ p.operator # get_owner(t)
                                         /\ ~is_operator([owner |-> get_owner(t),
                                                          operator |-> p.operator,
                                                          token_id |-> t]))
                                            => TransferNow(p.operator, get_owner(t), to_, t)
                                                   = "FA2_NOT_OPERATOR"

\* token 0 has just come back to A from another owner, who is not the operator,
\* and the grant A gave carol is still there
C20_Witness ==
    /\ call.op = "transfer"
    /\ result = "ok"
    /\ Len(Legs(call.batch)) = 1
    /\ LET l == Legs(call.batch)[1]
       IN  /\ l.token_id = 0
           /\ l.amount = 1
           /\ l.to_ # l.from_
           /\ call.sender = l.from_
           /\ call.sender # "carol"
           /\ l.to_ # "carol"
           /\ pre.ledger[0] = l.from_
           /\ ledger[0] = l.to_
           /\ [owner |-> l.to_, operator |-> "carol", token_id |-> 0] \in operators
           /\ [owner |-> l.from_, operator |-> "carol", token_id |-> 0] \notin operators
           /\ TransferNow("carol", l.to_, l.from_, 0) = "ok"

====
